---- MODULE Spec2Model ----
(***************************************************************************)
(* ATLAS Round One: enclosure synthesis (geometry_tools.py, geometry.py),  *)
(* the project file round trip (project_io.py) and the main window's       *)
(* handlers (main_window.py), as a state machine.                          *)
(*                                                                         *)
(* Python objects live in two heaps, `meshes` and `lists`: an object is    *)
(* its index in the heap, None is index 0, and a call returns the heaps    *)
(* it leaves behind together with its value or the exception it raised.    *)
(* Lengths are integers in units of 1e-6 (the epsilon of line 24 of        *)
(* geometry_tools.py is one unit); pad_rel is an integer number of         *)
(* 1/PadDen.                                                               *)
(***************************************************************************)
EXTENDS Integers, Sequences, FiniteSets, TLC

VARIABLES
    trimesh,      \* geometry_tools.trimesh: TRUE when the import succeeded, FALSE when it is None
    meshes,       \* heap of mesh objects
    lists,        \* heap of list objects: each a sequence of <<name, mesh id>>
    pc,           \* which function the harness has called
    args,         \* the arguments of that call
    res,          \* what the call returned or raised
    res2,         \* what the repeated call returned or raised
    h0,           \* the heaps before the call
    win,          \* the main window: its ProjectState, its two paths and its widgets
    project_files,\* the project files on disk: path -> the JSON object written
    last,         \* the handler that ran last, and what it was given
    steps         \* user actions so far

hvars == <<trimesh, meshes, lists, pc, args, res, res2, h0>>
wvars == <<win, project_files, last, steps>>
vars == <<trimesh, meshes, lists, pc, args, res, res2, h0, win, project_files, last, steps>>

(***************************************************************************)
(* Bounds of the model                                                     *)
(***************************************************************************)
MaxParts == 3
MaxSteps == 5
\* bits of the significand of a float (numpy's float64 has 53)
MantissaBits == 11

(***************************************************************************)
(* Values                                                                  *)
(***************************************************************************)
None == 0
PadDen == 100 * 100
Axes == 1..3

BoundsName == "Bounds"
Names == {"Bounds", "Part_0", "Part_1"}
PartNameArgs == {"Bounds", "Part_1"}
Modes == {"aabb", "obb", "OBB"}
PadRels == {0, 500, 1000}

NoExc == "none"
ExceptionClasses ==
    {"RuntimeError", "ValueError", "AttributeError", "LinAlgError", "TypeError", "KeyError"}

\* str.lower() on the mode strings in use
Lower(s) == CASE s = "OBB" -> "obb" [] s = "AABB" -> "aabb" [] OTHER -> s

MinOf(S) == CHOOSE x \in S : \A y \in S : x <= y
MaxOf(S) == CHOOSE x \in S : \A y \in S : x >= y

\* floor of the square root, by Newton's iteration from above: y is the
\* iterate after x
RECURSIVE NewtonSqrt(_, _, _)
NewtonSqrt(n, x, y) == IF y >= x THEN x ELSE NewtonSqrt(n, y, (y + n \div y) \div 2)
ISqrt(n) == IF n = 0 THEN 0 ELSE NewtonSqrt(n, n, (n + 1) \div 2)

(***************************************************************************)
(* Floating-point numbers: an integer count of the length unit that has at *)
(* most MantissaBits significant bits.  Fl rounds to the nearest such      *)
(* number, a tie to the one whose last bit is zero, as numpy's arithmetic  *)
(* rounds each sum, difference and product.  Halving and doubling are      *)
(* exact.                                                                  *)
(***************************************************************************)
RECURSIVE Pow2(_)
Pow2(k) == IF k = 0 THEN 1 ELSE 2 * Pow2(k - 1)

Abs(n) == IF n < 0 THEN -n ELSE n

\* below it every integer is a float
FloatLimit == Pow2(MantissaBits)

\* the distance between neighbouring floats at magnitude n >= 0, g being a
\* power of two not above it
RECURSIVE GapFrom(_, _)
GapFrom(n, g) == IF n < g * FloatLimit THEN g ELSE GapFrom(n, 2 * g)
Ulp(n) == GapFrom(Abs(n), 1)

RoundTo(n, g) ==
    LET q == n \div g
        r == n % g
    IN IF 2 * r < g THEN q * g
       ELSE IF 2 * r > g THEN (q + 1) * g
       ELSE IF q % 2 = 0 THEN q * g ELSE (q + 1) * g

Fl(n) ==
    IF -FloatLimit < n /\ n < FloatLimit THEN n
    ELSE IF n < 0 THEN -RoundTo(-n, Ulp(n)) ELSE RoundTo(n, Ulp(n))

(***************************************************************************)
(* Rigid transforms: a rotation matrix rot / den (rows of integers over a  *)
(* common denominator) and a translation t.                                *)
(* ok = FALSE: computing the transform, or inverting it, raises.           *)
(***************************************************************************)
IdentityT ==
    [ok |-> TRUE, rot |-> <<<<1, 0, 0>>, <<0, 1, 0>>, <<0, 0, 1>>>>, den |-> 1, t |-> <<0, 0, 0>>]
\* quarter turn about z, then a shift
TurnZ ==
    [ok |-> TRUE, rot |-> <<<<0, -1, 0>>, <<1, 0, 0>>, <<0, 0, 1>>>>, den |-> 1, t |-> <<200, 0, 100>>]
\* the turn about z by the angle of cosine 3/5 and sine -4/5, about the point
\* (300, 200, 50), which it carries to the origin
Tilt ==
    [ok |-> TRUE, rot |-> <<<<3, 4, 0>>, <<-4, 3, 0>>, <<0, 0, 5>>>>, den |-> 5, t |-> <<-340, 120, -50>>]
BadT ==
    [ok |-> FALSE, rot |-> <<<<1, 0, 0>>, <<0, 1, 0>>, <<0, 0, 1>>>>, den |-> 1, t |-> <<0, 0, 0>>]

\* n / d to the nearest integer (d > 0)
DivRound(n, d) == (2 * n + d) \div (2 * d)

Row(r, p) == r[1] * p[1] + r[2] * p[2] + r[3] * p[3]

TransformPoint(T, p) == [a \in Axes |-> Fl(DivRound(Row(T.rot[a], p), T.den) + T.t[a])]

\* np.linalg.inv(T): the transposed rotation, and the translation turned back
linalg_inv(T) ==
    LET transposed == [a \in Axes |-> [b \in Axes |-> T.rot[b][a]]] IN
    [ok |-> T.ok,
     rot |-> transposed,
     den |-> T.den,
     t |-> [a \in Axes |-> -DivRound(Row(transposed[a], T.t), T.den)]]

(***************************************************************************)
(* Mesh objects                                                            *)
(*   vertices  sequence of points                                          *)
(*   faces     sequence of index triples (0-based, as numpy holds them)    *)
(*   wt        what the is_watertight attribute does: "true", "false",     *)
(*             or "raises"                                                 *)
(*   pit       the principal_inertia_transform attribute                   *)
(***************************************************************************)
Mesh(vs, fs, w, T) == [vertices |-> vs, faces |-> fs, wt |-> w, pit |-> T]

OpenQuad == Mesh(<<<<0, 0, 0>>, <<400, 0, 0>>, <<400, 200, 0>>, <<0, 200, 0>>>>,
                 <<<<0, 1, 2>>, <<0, 2, 3>>>>, "false", TurnZ)
ClosedTetra == Mesh(<<<<0, 0, 0>>, <<200, 0, 0>>, <<0, 200, 0>>, <<0, 0, 200>>>>,
                    <<<<0, 2, 1>>, <<0, 1, 3>>, <<0, 3, 2>>, <<1, 2, 3>>>>, "true", IdentityT)
EmptyMesh == Mesh(<<>>, <<>>, "false", IdentityT)
BrokenTopology == Mesh(<<<<0, 0, 0>>, <<200, 0, 0>>, <<0, 200, 0>>>>, <<<<0, 1, 2>>>>, "raises", TurnZ)
SingularInertia == Mesh(<<<<0, 0, 0>>, <<200, 0, 0>>, <<0, 0, 200>>>>, <<<<0, 1, 2>>>>, "false", BadT)
SinglePoint == Mesh(<<<<200, 200, 200>>>>, <<>>, "false", IdentityT)
\* a sheet whose far corner uses every bit of the significand
WideSheet == Mesh(<<<<4, 0, 0>>, <<Pow2(MantissaBits + 1) - 2, 0, 0>>, <<4, 200, 0>>>>,
                  <<<<0, 1, 2>>>>, "false", IdentityT)

\* the shape of the i-th component of a part list
Component(i) == Mesh(<<<<2 * i, 0, 0>>, <<2 * i, 2, 0>>, <<2 * i, 0, 2>>>>, <<<<0, 1, 2>>>>, "false", IdentityT)

\* m.bounds of a mesh with vertices
mesh_bounds(m) ==
    [lo |-> [a \in Axes |-> MinOf({m.vertices[i][a] : i \in DOMAIN m.vertices})],
     hi |-> [a \in Axes |-> MaxOf({m.vertices[i][a] : i \in DOMAIN m.vertices})]]

\* m.bounds is None for a mesh without vertices, and unpacking None raises
has_no_bounds(m) == Len(m.vertices) = 0

\* Trimesh.apply_transform: the object's vertices move, its faces stay
apply_transform(m, T) ==
    [m EXCEPT !.vertices = [i \in DOMAIN m.vertices |-> TransformPoint(T, m.vertices[i])]]

\* Trimesh.apply_translation
apply_translation(m, c) ==
    [m EXCEPT !.vertices = [i \in DOMAIN m.vertices |-> [a \in Axes |-> Fl(m.vertices[i][a] + c[a])]]]

\* trimesh.creation.box(extents): eight corners about the origin, twelve
\* outward-facing triangles
BoxCorner(k, a) == IF (k \div (CASE a = 1 -> 4 [] a = 2 -> 2 [] OTHER -> 1)) % 2 = 1 THEN 1 ELSE -1
BoxFaces ==
    <<<<1, 3, 0>>, <<4, 1, 0>>, <<0, 3, 2>>, <<2, 4, 0>>, <<1, 7, 3>>, <<5, 1, 4>>,
      <<5, 7, 1>>, <<3, 7, 2>>, <<6, 4, 2>>, <<2, 7, 6>>, <<6, 5, 4>>, <<7, 5, 6>>>>
creation_box(extents) ==
    Mesh([k \in 1..8 |-> [a \in Axes |-> BoxCorner(k - 1, a) * (extents[a] \div 2)]],
         BoxFaces, "true", IdentityT)

\* a closed slab of 500 by 250 by 100 about (300, 200, 50), its long axis
\* turned from the x axis by the angle of cosine 3/5 and sine 4/5; Tilt is its
\* principal_inertia_transform: it moves the slab so that its principal axes
\* lie on X, Y and Z and its centroid at the origin
TiltedSlab ==
    Mesh(<<<<250, -75, 0>>,
           <<250, -75, 100>>,
           <<50, 75, 0>>,
           <<50, 75, 100>>,
           <<550, 325, 0>>,
           <<550, 325, 100>>,
           <<350, 475, 0>>,
           <<350, 475, 100>>>>,
         BoxFaces, "true", Tilt)

MeshValues ==
    {OpenQuad, ClosedTetra, EmptyMesh, BrokenTopology, SingularInertia, SinglePoint, WideSheet,
     TiltedSlab}

\* faces[:, ::-1]
reverse_winding(fs) == [i \in DOMAIN fs |-> <<fs[i][3], fs[i][2], fs[i][1]>>]

(***************************************************************************)
(* Calls: H is the pair of heaps a call starts from; a call yields         *)
(*   exc   NoExc, or the class of the exception that left the call         *)
(*   val   the object returned                                             *)
(*   flag  the boolean returned                                            *)
(*   H     the heaps the call leaves behind                                *)
(***************************************************************************)
Raise(e, H) == [exc |-> e, val |-> None, flag |-> FALSE, H |-> H]
Return(v, H) == [exc |-> NoExc, val |-> v, flag |-> FALSE, H |-> H]
ReturnBool(b, H) == [exc |-> NoExc, val |-> None, flag |-> b, H |-> H]

Alloc(heap) == Len(heap) + 1

\* geometry_tools.is_watertight, and geometry.is_watertight, which is the same text
\* faulty variant: without the None test and the try
is_watertight_unguarded(H, m) ==
    IF m = None THEN Raise("AttributeError", H)
    ELSE IF H.meshes[m].wt = "raises" THEN Raise("RuntimeError", H)
    ELSE ReturnBool(H.meshes[m].wt = "true", H)
is_watertight(H, m) ==
    IF m = None THEN ReturnBool(FALSE, H)
    ELSE IF H.meshes[m].wt = "raises" THEN ReturnBool(FALSE, H)
    ELSE ReturnBool(H.meshes[m].wt = "true", H)

\* m.vertices.size == 0
\* faulty variant: without the test
vertices_unchecked(m) == FALSE
vertices_empty(m) == Len(m.vertices) = 0

\* diag = max(norm(bb_max - bb_min), 1e-6)
Epsilon == 1
bounds_diag(b) ==
    LET max(d, e) == IF d > e THEN d ELSE e
    IN max(Fl(ISqrt((b.hi[1] - b.lo[1]) * (b.hi[1] - b.lo[1])
                  + (b.hi[2] - b.lo[2]) * (b.hi[2] - b.lo[2])
                  + (b.hi[3] - b.lo[3]) * (b.hi[3] - b.lo[3]))),
           Epsilon)

\* pad = diag * float(pad_rel)
abs_pad(b, pad_rel) == Fl((bounds_diag(b) * pad_rel) \div PadDen)

\* m.copy(): a new object with the same contents
\* faulty variant: the same object instead of a copy
m_copy_alias(H, m) == Return(m, H)
m_copy(H, m) == Return(Alloc(H.meshes), [H EXCEPT !.meshes = Append(@, H.meshes[m])])

\* the box of the given bounds, padded, about their midpoint
\* faulty variant: the pad taken off the extents
padded_box_shrunk(b, pad) ==
    apply_translation(creation_box([a \in Axes |-> Fl(Fl(b.hi[a] - b.lo[a]) - 2 * pad)]),
                      [a \in Axes |-> Fl(b.lo[a] + b.hi[a]) \div 2])
\* faulty variant: the box left about the origin
padded_box_untranslated(b, pad) ==
    creation_box([a \in Axes |-> Fl(Fl(b.hi[a] - b.lo[a]) + 2 * pad)])
padded_box(b, pad) ==
    LET extents == [a \in Axes |-> Fl(Fl(b.hi[a] - b.lo[a]) + 2 * pad)]
        center == [a \in Axes |-> Fl(b.lo[a] + b.hi[a]) \div 2]
    IN apply_translation(creation_box(extents), center)

\* box.faces = box.faces[:, ::-1]
\* faulty variant: the faces left as creation.box made them
outward(box) == box
inward(box) == [box EXCEPT !.faces = reverse_winding(@)]

make_bounding_box(H, m, mode, pad_rel) ==
    IF ~trimesh THEN Raise("RuntimeError", H)
    ELSE IF m = None THEN Raise("AttributeError", H)
    ELSE IF vertices_empty(H.meshes[m]) THEN Raise("ValueError", H)
    ELSE IF has_no_bounds(H.meshes[m]) THEN Raise("TypeError", H)
    ELSE
      LET T == H.meshes[m].pit
          \* the box, its winding reversed, as a new object of the heap H2
          boxed(H2, box) ==
              Return(Alloc(H2.meshes), [H2 EXCEPT !.meshes = Append(@, inward(box))])
          \* the copy c moved into the frame of its principal axes
          oriented(c, local, pad) ==
              boxed([c.H EXCEPT !.meshes[c.val] = local],
                    apply_transform(padded_box(mesh_bounds(local), pad), T))
          obb(c, pad) ==
              IF ~T.ok THEN Raise("LinAlgError", c.H)
              ELSE oriented(c, apply_transform(c.H.meshes[c.val], linalg_inv(T)), pad)
          with_pad(pad) ==
              IF Lower(mode) = "obb" THEN obb(m_copy(H, m), pad)
              ELSE boxed(H, padded_box(mesh_bounds(H.meshes[m]), pad))
      IN with_pad(abs_pad(mesh_bounds(H.meshes[m]), pad_rel))

\* [(n, c) for (n, c) in parts_named if n != part_name]
\* faulty variant: without the filter
strip_nothing(items, part_name) == items
strip_part(items, part_name) ==
    LET Keep(p) == p[1] # part_name IN SelectSeq(items, Keep)

\* if not enabled and not force: return parts_clean
\* faulty variant: without the early return
skip_never(enabled, force) == FALSE
skip_enclosure(enabled, force) == ~enabled /\ ~force

\* if force or not is_watertight(mesh)
\* faulty variant: without force
wants_shell_unforced(force, watertight) == ~watertight
\* faulty variant: with the watertight test inverted
wants_shell_flipped(force, watertight) == force \/ watertight
wants_shell(force, watertight) == force \/ ~watertight

\* except Exception
\* faulty variant: a narrower except clause
except_ValueError(e) == e = "ValueError"
except_Exception(e) == e \in ExceptionClasses

\* parts_clean + [(part_name, box)]
\* faulty variant: the shell put first
prepend_shell(items, part_name, box) == <<<<part_name, box>>>> \o items
append_shell(items, part_name, box) == Append(items, <<part_name, box>>)

add_or_update_enclosure(H, mesh, parts_named, enabled, mode, pad_rel, force, part_name) ==
    LET parts_clean == Alloc(H.lists)
        \* the try block, b being what make_bounding_box returned or raised
        try(b) ==
            IF b.exc # NoExc THEN
              IF except_Exception(b.exc) THEN Return(parts_clean, b.H) ELSE Raise(b.exc, b.H)
            ELSE
              Return(Alloc(b.H.lists),
                     [b.H EXCEPT !.lists = Append(@, append_shell(b.H.lists[parts_clean], part_name, b.val))])
        cleaned(H1) ==
            IF skip_enclosure(enabled, force) THEN Return(parts_clean, H1)
            ELSE IF wants_shell(force, is_watertight(H1, mesh).flag)
                 THEN try(make_bounding_box(H1, mesh, mode, pad_rel))
                 ELSE Return(parts_clean, H1)
    IN cleaned([H EXCEPT !.lists = Append(@, strip_part(H.lists[parts_named], part_name))])

\* geometry_tools.reorder_bounds_last
\* faulty variant: with the two halves swapped
bounds_first(H, parts_named) ==
    LET IsB(p) == p[1] = "Bounds"
        NotB(p) == p[1] # "Bounds"
    IN Return(Alloc(H.lists),
              [H EXCEPT !.lists = Append(@, SelectSeq(H.lists[parts_named], IsB)
                                            \o SelectSeq(H.lists[parts_named], NotB))])
reorder_bounds_last(H, parts_named) ==
    LET IsB(p) == p[1] = "Bounds"
        NotB(p) == p[1] # "Bounds"
    IN Return(Alloc(H.lists),
              [H EXCEPT !.lists = Append(@, SelectSeq(H.lists[parts_named], NotB)
                                            \o SelectSeq(H.lists[parts_named], IsB))])

\* geometry.add_enclosure_if_needed; geometry.is_watertight and
\* geometry.make_bounding_box are the text of the functions above.  The list
\* returned is the list given unless a shell was added.
add_enclosure_if_needed(H, m, parts, enabled, mode, pad_rel, part_name) ==
    LET try(b) ==
            IF b.exc # NoExc THEN
              IF except_Exception(b.exc) THEN Return(parts, b.H) ELSE Raise(b.exc, b.H)
            ELSE
              Return(Alloc(b.H.lists),
                     [b.H EXCEPT !.lists = Append(@, append_shell(b.H.lists[parts], part_name, b.val))])
    IN IF ~enabled THEN Return(parts, H)
       ELSE IF ~is_watertight(H, m).flag THEN try(make_bounding_box(H, m, mode, pad_rel))
       ELSE Return(parts, H)

\* app.py MainWindow._add_or_update_enclosure, as far as state.parts goes: the
\* value returned is state.parts after the call, state.mesh and state.parts
\* being mesh and parts before it
app_add_or_update_enclosure(H, mesh, parts, enabled, mode, pad_rel, force) ==
    LET parts_wo_bounds == Alloc(H.lists)
        named(H1) ==
            add_enclosure_if_needed(H1, mesh, parts_wo_bounds, TRUE, mode, pad_rel, "Bounds")
    IN IF mesh = None THEN Return(parts, H)
       ELSE IF ~enabled /\ ~force THEN Return(parts, H)
       ELSE named([H EXCEPT !.lists = Append(@, strip_part(H.lists[parts], "Bounds"))])

\* app.py MainWindow.on_enclosure_now
app_on_enclosure_now(H, mesh, parts, enabled, mode, pad_rel) ==
    app_add_or_update_enclosure(H, mesh, parts, enabled, mode, pad_rel, TRUE)

(***************************************************************************)
(* The main window (main_window.py).  `win` holds the fields of its         *)
(* ProjectState, its two paths and the widgets the handlers read:           *)
(*   mesh, matlib            <<>> for None, <<x>> for the object x          *)
(*   parts                   sequence of <<name, mesh>>                     *)
(*   assignments             part name -> material name                     *)
(*   parts_list              the rows shown and the current row             *)
(*   materials_list          the names shown                                *)
(* A handler is an operator from the window before to the window after.     *)
(***************************************************************************)
PyNone == "<None>"
EmptyMap == <<>>

MeshPaths == {"open.obj", "closed.obj", "singular.obj", "broken.obj"}
ProjectPaths == {"a.atlasproj.json"}
PadPercents == {0, 5, 10}

Sheet(x) == Mesh(<<<<x, 0, 0>>, <<x + 200, 0, 0>>, <<x, 200, 0>>>>, <<<<0, 1, 2>>>>, "false", IdentityT)
TwoSheets == Mesh(<<<<0, 0, 0>>, <<200, 0, 0>>, <<0, 200, 0>>, <<400, 0, 0>>, <<600, 0, 0>>, <<400, 200, 0>>>>,
                  <<<<0, 1, 2>>, <<3, 4, 5>>>>, "false", TurnZ)

\* what trimesh.load and Trimesh.split make of the mesh files on disk
MeshFile(path) ==
    CASE path = "open.obj" -> [loads |-> TRUE, mesh |-> TwoSheets, comps |-> <<Sheet(0), Sheet(400)>>]
      [] path = "closed.obj" -> [loads |-> TRUE, mesh |-> ClosedTetra, comps |-> <<ClosedTetra>>]
      [] path = "singular.obj" -> [loads |-> TRUE, mesh |-> SingularInertia, comps |-> <<SingularInertia>>]
      [] OTHER -> [loads |-> FALSE, mesh |-> EmptyMesh, comps |-> <<>>]

\* os.path.exists
path_exists(path) == path \in MeshPaths

\* geometry.load_mesh followed by geometry.split_mesh
load_and_split(path) ==
    IF ~trimesh THEN [exc |-> "RuntimeError", mesh |-> EmptyMesh, comps |-> <<>>]
    ELSE IF ~MeshFile(path).loads THEN [exc |-> "ValueError", mesh |-> EmptyMesh, comps |-> <<>>]
    ELSE [exc |-> NoExc, mesh |-> MeshFile(path).mesh, comps |-> MeshFile(path).comps]

\* f"Part_{i}"
\* faulty variant: the index left out of the name
PartNameUnnumbered(i) == "Part_0"
PartName(i) == CASE i = 0 -> "Part_0" [] i = 1 -> "Part_1" [] i = 2 -> "Part_2" [] OTHER -> "Part_n"

\* materials: coefficients in hundredths
NativeBands == <<125, 1000>>
Zeros(n) == [i \in 1..n |-> 0]
Ones(n) == [i \in 1..n |-> 100]
Material(name, freqs, alpha, tau, scatter, kind) ==
    [name |-> name, freqs |-> freqs, alpha |-> alpha, tau |-> tau, scatter |-> scatter, kind |-> kind]
Concrete == Material("Concrete", NativeBands, <<2, 5>>, Zeros(2), <<10, 10>>, "generic")
Boundary == Material("Boundary", NativeBands, <<99, 99>>, Zeros(2), Zeros(2), "generic")
LibPlain == [native_bands |-> NativeBands, items |-> ("Concrete" :> Concrete)]
LibWithBoundary == [native_bands |-> NativeBands, items |-> ("Concrete" :> Concrete) @@ ("Boundary" :> Boundary)]

\* what json.load makes of a library file: a dict with the keys it has; a
\* record of a material is a dict of the keys "alpha", "scatter", "kind" it has
GoodFile ==
    [_meta |-> [bands_hz |-> NativeBands],
     materials |-> ("Concrete" :> [alpha |-> <<2, 5>>, scatter |-> <<10, 10>>, kind |-> "generic"])
                   @@ ("Plaster" :> [alpha |-> <<3, 4>>])]
ShortAlphaFile ==
    [_meta |-> [bands_hz |-> NativeBands], materials |-> ("Felt" :> [alpha |-> <<50>>])]
NoAlphaFile ==
    [_meta |-> [bands_hz |-> NativeBands], materials |-> ("Void" :> [kind |-> "generic"])]
ShortScatterFile ==
    [_meta |-> [bands_hz |-> NativeBands],
     materials |-> ("Brick" :> [alpha |-> <<2, 5>>, scatter |-> <<10>>])]
NoMetaFile == [materials |-> ("Concrete" :> [alpha |-> <<2, 5>>])]
TwoCandidatesFile ==
    [_meta |-> [bands_hz |-> NativeBands],
     materials |-> ("Boundary" :> [alpha |-> <<100, 100>>])
                   @@ ("FreeSpace" :> [alpha |-> <<90, 90>>, kind |-> "generic"])]
LibraryFiles ==
    {GoodFile, ShortAlphaFile, NoAlphaFile, ShortScatterFile, NoMetaFile, TwoCandidatesFile}

\* dict.get(key, default)
dict_get(d, key, default) == IF key \in DOMAIN d THEN d[key] ELSE default

\* the Material from_json makes of record rec
material_of(name, bands, rec) ==
    Material(name, bands, dict_get(rec, "alpha", <<>>), Zeros(Len(dict_get(rec, "alpha", <<>>))),
             dict_get(rec, "scatter", Zeros(Len(dict_get(rec, "alpha", <<>>)))),
             dict_get(rec, "kind", "generic"))

\* MaterialDB.from_json on the parsed file: the exception raised, or the
\* library
from_json(data) ==
    IF "_meta" \notin DOMAIN data THEN [exc |-> "KeyError", lib |-> <<>>]
    ELSE [exc |-> NoExc,
          lib |-> <<[native_bands |-> data._meta.bands_hz,
                     items |-> [name \in DOMAIN data.materials |->
                                  material_of(name, data._meta.bands_hz, data.materials[name])]]>>]

\* MainWindow.refresh_materials_list, with an empty search text
refresh_materials_list(W) ==
    [W EXCEPT !.materials_list =
        IF W.matlib = <<>> THEN {"(no materials)"} ELSE DOMAIN W.matlib[1].items]

\* the names ensure_free_space_material looks for, in its order
name_candidates == <<"Free Space", "FreeSpace", "Boundary", "Absorbing Boundary">>

\* faulty variant: the name returned without the material being stored
ensure_free_space_material_unregistered(W) ==
    IF W.matlib = <<>> THEN [name |-> PyNone, W |-> W]
    ELSE IF "FreeSpace" \in DOMAIN W.matlib[1].items /\ "Free Space" \notin DOMAIN W.matlib[1].items
         THEN [name |-> "FreeSpace", W |-> W]
    ELSE IF "Boundary" \in DOMAIN W.matlib[1].items /\ "Free Space" \notin DOMAIN W.matlib[1].items
         THEN [name |-> "Boundary", W |-> W]
    ELSE IF "Absorbing Boundary" \in DOMAIN W.matlib[1].items
              /\ "Free Space" \notin DOMAIN W.matlib[1].items
         THEN [name |-> "Absorbing Boundary", W |-> W]
    ELSE [name |-> "Free Space", W |-> W]
\* faulty variant: looks for "Boundary" before "FreeSpace"
ensure_free_space_material_boundary_first(W) ==
    IF W.matlib = <<>> THEN [name |-> PyNone, W |-> W]
    ELSE IF "Free Space" \in DOMAIN W.matlib[1].items THEN [name |-> "Free Space", W |-> W]
    ELSE IF "Boundary" \in DOMAIN W.matlib[1].items THEN [name |-> "Boundary", W |-> W]
    ELSE IF "FreeSpace" \in DOMAIN W.matlib[1].items THEN [name |-> "FreeSpace", W |-> W]
    ELSE IF "Absorbing Boundary" \in DOMAIN W.matlib[1].items
         THEN [name |-> "Absorbing Boundary", W |-> W]
    ELSE [name |-> "Free Space",
          W |-> [W EXCEPT !.matlib[1].items =
                   ("Free Space" :> Material("Free Space", W.matlib[1].native_bands,
                                             Ones(Len(W.matlib[1].native_bands)),
                                             Zeros(Len(W.matlib[1].native_bands)),
                                             Zeros(Len(W.matlib[1].native_bands)), "generic")) @@ @,
                          !.materials_list = DOMAIN W.matlib[1].items \cup {"Free Space"}]]

\* materials_tools.ensure_free_space_material, and app.py's
\* MainWindow._ensure_free_space_material: the name chosen or created, and
\* the window with the library it leaves
ensure_free_space_material(W) ==
    IF W.matlib = <<>> THEN [name |-> PyNone, W |-> W]
    ELSE
      LET items == W.matlib[1].items IN
      IF "Free Space" \in DOMAIN items THEN [name |-> "Free Space", W |-> W]
      ELSE IF "FreeSpace" \in DOMAIN items THEN [name |-> "FreeSpace", W |-> W]
      ELSE IF "Boundary" \in DOMAIN items THEN [name |-> "Boundary", W |-> W]
      ELSE IF "Absorbing Boundary" \in DOMAIN items THEN [name |-> "Absorbing Boundary", W |-> W]
      ELSE
        LET n == Len(W.matlib[1].native_bands)
            mat == Material("Free Space", W.matlib[1].native_bands, Ones(n), Zeros(n), Zeros(n), "generic")
        IN [name |-> "Free Space",
            W |-> refresh_materials_list([W EXCEPT !.matlib[1].items = ("Free Space" :> mat) @@ @])]

\* MainWindow._enclosure_settings
enclosure_settings(W) ==
    [enabled |-> W.chk_enclosure,
     mode |-> IF W.combo_enclosure_mode = "AABB (fast)" THEN "aabb" ELSE "obb",
     pad |-> W.spin_pad * (PadDen \div 100)]

\* MainWindow._current_render_mode
current_render_mode(W) == IF W.combo_mode = "Wireframe" THEN "wireframe" ELSE "shaded"

\* MainWindow.on_part_selected
on_part_selected(W, row) ==
    [W EXCEPT !.current_part_index = row, !.parts_list.current = row]

\* the heaps a call made by the window starts from: the mesh is object 1, the
\* shapes of the parts are objects 2.., the part list is list 1
ToHeaps(m, parts) ==
    [meshes |-> <<m>> \o [i \in 1..Len(parts) |-> parts[i][2]],
     lists |-> <<[i \in 1..Len(parts) |-> <<parts[i][1], i + 1>>]>>]
\* the part list a call returned, with its shapes
FromHeaps(r) ==
    [i \in 1..Len(r.H.lists[r.val]) |-> <<r.H.lists[r.val][i][1], r.H.meshes[r.H.lists[r.val][i][2]]>>]

HasBounds(parts) == \E i \in 1..Len(parts) : parts[i][1] = "Bounds"

\* MainWindow.refresh_parts_list: QListWidget.clear() drops the current row,
\* and a dropped current row signals currentRowChanged(-1) to on_part_selected
refresh_parts_list(W) ==
    LET cleared(W1) == IF W1.parts_list.current # -1 THEN on_part_selected(W1, -1) ELSE W1
        add_items(W1, shown) == [W1 EXCEPT !.parts_list.rows = [i \in 1..Len(shown) |-> shown[i][1]]]
    IN add_items(cleared(W), FromHeaps(reorder_bounds_last(ToHeaps(EmptyMesh, W.parts), 1)))

\* dict[key] = value
SetItem(d, k, v) == (k :> v) @@ d

\* self.assignments.clear()
\* faulty variant: the mapping left as it is
assignments_keep(a) == a
assignments_clear(a) == EmptyMap

\* ProjectState.set_parts
set_parts(W, mesh, comps) ==
    [W EXCEPT !.mesh = <<mesh>>,
              !.parts = [i \in 1..Len(comps) |-> <<PartName(i - 1), comps[i]>>],
              !.assignments = assignments_clear(@)]

\* the except clause of _load_mesh_from_path: the try block assigns to the
\* state only after every call that can raise
\* faulty variant: the state emptied before the load is tried
load_failed_emptied(W) ==
    [W EXCEPT !.mesh = <<>>, !.parts = <<>>, !.assignments = assignments_clear(@),
              !.current_mesh_path = PyNone]
load_failed(W) == W

\* an exception the handler's except clause lets through
uncaught(e) == e # NoExc /\ ~except_Exception(e)

\* MainWindow._load_mesh_from_path
load_mesh_from_path(W, path) ==
    LET \* if any(n == "Bounds" ...): the free-space material, as e names it
        assign_bounds(W1, e) ==
            IF HasBounds(W1.parts)
            THEN IF e.name # PyNone
                 THEN [e.W EXCEPT !.assignments = SetItem(@, "Bounds", e.name)]
                 ELSE e.W
            ELSE W1
        set_state(W1) == refresh_parts_list(assign_bounds(W1, ensure_free_space_material(W1)))
        \* r is what add_or_update_enclosure returned or raised
        enclosed(ls, r) ==
            IF r.exc # NoExc THEN load_failed(W)
            ELSE set_state([W EXCEPT !.mesh = <<ls.mesh>>, !.parts = FromHeaps(r),
                                     !.assignments = assignments_clear(@), !.current_mesh_path = path])
        split(ls, s) ==
            IF ls.exc # NoExc THEN load_failed(W)
            ELSE enclosed(ls,
                   add_or_update_enclosure(
                     ToHeaps(ls.mesh, [i \in 1..Len(ls.comps) |-> <<PartName(i - 1), ls.comps[i]>>]),
                     1, 1, s.enabled, s.mode, s.pad, FALSE, "Bounds"))
    IN split(load_and_split(path), enclosure_settings(W))

\* MainWindow.on_enclosure_now
\* faulty variant: the assignments cleared as a load does, nothing rebuilt
on_enclosure_now_clearing(W) ==
    IF W.mesh = <<>> THEN W ELSE [W EXCEPT !.assignments = assignments_clear(@)]
on_enclosure_now(W) ==
    IF W.mesh = <<>> THEN W
    ELSE
      LET assign_bounds(e) ==
              IF e.name # PyNone
              THEN refresh_parts_list([e.W EXCEPT !.assignments = SetItem(@, "Bounds", e.name)])
              ELSE e.W
          enclosed(r) ==
              assign_bounds(ensure_free_space_material(
                              refresh_parts_list([W EXCEPT !.parts = FromHeaps(r)])))
          settings(s) ==
              enclosed(add_or_update_enclosure(ToHeaps(W.mesh[1], W.parts), 1, 1, TRUE, s.mode, s.pad,
                                               TRUE, "Bounds"))
      IN settings(enclosure_settings(W))

\* MainWindow.on_assign_material; item is materials_list.currentItem(), PyNone for none
on_assign_material(W, item) ==
    LET idx == W.current_part_index IN
    IF idx < 0 \/ idx >= Len(W.parts) \/ item = PyNone THEN W
    ELSE refresh_parts_list([W EXCEPT !.assignments = SetItem(@, W.parts[idx + 1][1], item)])

\* MainWindow._parts_context_menu, with the menu's one action chosen on a row
parts_context_menu(W) ==
    LET assign_bounds(e) ==
            IF e.name # PyNone
            THEN refresh_parts_list([e.W EXCEPT !.assignments = SetItem(@, "Bounds", e.name)])
            ELSE e.W
    IN assign_bounds(ensure_free_space_material(
                       IF ~HasBounds(W.parts) THEN on_enclosure_now(W) ELSE W))

\* round(): to the nearest integer, a half to the even one (num >= 0, den > 0)
RoundHalfEven(num, den) ==
    LET q == num \div den
        r2 == 2 * (num % den)
    IN IF r2 < den THEN q
       ELSE IF r2 > den THEN q + 1
       ELSE IF q % 2 = 0 THEN q ELSE q + 1

\* int(round(enc_pad * 100.0))
\* faulty variant: without the factor 100
pad_percent_unscaled(pad) == pad \div PadDen
pad_percent(pad) == RoundHalfEven(pad * 100, PadDen)

\* QSpinBox.setValue on a box of range 0..100
SpinMin == 0
SpinMax == 100
spin_set_value(v) == IF v < SpinMin THEN SpinMin ELSE IF v > SpinMax THEN SpinMax ELSE v

\* project_io.serialize_project
serialize_project(mesh_path, assignments, render_mode, enclosure, version) ==
    [version |-> version,
     mesh_path |-> mesh_path,
     render_mode |-> render_mode,
     assignments |-> assignments,
     enclosure |-> [enabled |-> enclosure.enabled, mode |-> enclosure.mode, pad |-> enclosure.pad]]

\* MainWindow._serialize_project
window_serialize_project(W) ==
    LET s == enclosure_settings(W) IN
    serialize_project(W.current_mesh_path, W.assignments, current_render_mode(W),
                      [enabled |-> s.enabled, mode |-> s.mode, pad |-> s.pad], 1)

\* project_io.load_project_into_state
load_project_into_state(data) ==
    [ui_restore |->
        [enclosure_enabled |-> data.enclosure.enabled,
         enclosure_mode_text |-> IF data.enclosure.mode = "aabb" THEN "AABB (fast)" ELSE "OBB (tight)",
         enclosure_pad_percent |-> pad_percent(data.enclosure.pad),
         render_mode_text |-> IF data.render_mode = "wireframe" THEN "Wireframe" ELSE "Shaded"],
     mesh_path |-> data.mesh_path]

RECURSIVE apply_assignments(_, _, _)
\* faulty variant: every saved assignment applied, whatever the part list
restore_all(assignments, parts, saved) == saved @@ assignments
\* for name, _ in self.state.parts: if name in saved: assignments[name] = saved[name]
\* faulty variant: without the loop
restore_nothing(assignments, parts, saved) == assignments
apply_assignments(assignments, parts, saved) ==
    IF parts = <<>> THEN assignments
    ELSE apply_assignments(IF Head(parts)[1] \in DOMAIN saved
                           THEN SetItem(assignments, Head(parts)[1], saved[Head(parts)[1]])
                           ELSE assignments,
                           Tail(parts), saved)

\* MainWindow._load_project_dict
load_project_dict(W, data) ==
    LET restore_ui(ui) ==
            [W EXCEPT !.chk_enclosure = ui.enclosure_enabled,
                      !.combo_enclosure_mode = ui.enclosure_mode_text,
                      !.spin_pad = spin_set_value(ui.enclosure_pad_percent),
                      !.combo_mode = ui.render_mode_text]
        load_mesh(W1, mesh_path) ==
            IF mesh_path # PyNone /\ path_exists(mesh_path)
            THEN load_mesh_from_path(W1, mesh_path)
            ELSE W1
        restore_assignments(W2) ==
            refresh_parts_list([W2 EXCEPT !.assignments = apply_assignments(@, W2.parts, data.assignments)])
        loaded(l) == restore_assignments(load_mesh(restore_ui(l.ui_restore), l.mesh_path))
    IN loaded(load_project_into_state(data))

\* ProjectState.__init__ and the widgets as the constructor leaves them
FreshWindow ==
    [mesh |-> <<>>, parts |-> <<>>, matlib |-> <<>>, assignments |-> EmptyMap,
     current_part_index |-> -1,
     current_project_file |-> PyNone, current_mesh_path |-> PyNone,
     chk_enclosure |-> TRUE, combo_enclosure_mode |-> "AABB (fast)", spin_pad |-> 5,
     combo_mode |-> "Shaded",
     parts_list |-> [rows |-> <<>>, current |-> -1],
     materials_list |-> {}]

\* MainWindow.new_project: the materials list widget is not refreshed
\* faulty variant: the material library carried over to the new state
new_project_keeps_library(W) ==
    [FreshWindow EXCEPT !.materials_list = W.materials_list, !.matlib = W.matlib]
new_project(W) == [FreshWindow EXCEPT !.materials_list = W.materials_list]

\* what a project file on disk holds: the JSON object written by a save, or
\* text json.load cannot parse, or JSON whose top level is a list
NotJson == [not_json |-> TRUE]
JsonList == [json_list |-> <<>>]
\* json.load(open(path)) raises
json_load_fails(file) == "not_json" \in DOMAIN file
\* _load_project_dict raises: data.get on a list is an AttributeError
load_project_dict_fails(data) == "json_list" \in DOMAIN data
open_project_fails(file) == json_load_fails(file) \/ load_project_dict_fails(file)

\* MainWindow.open_project, on a file the dialog returned: the path is stored
\* once json.load has returned, before the data is applied
open_project(W, path, files) ==
    IF json_load_fails(files[path]) THEN W
    ELSE IF load_project_dict_fails(files[path]) THEN [W EXCEPT !.current_project_file = path]
    ELSE load_project_dict([W EXCEPT !.current_project_file = path], files[path])

(***************************************************************************)
(* The functions of geometry_tools.py, called once on inputs drawn from    *)
(* bounded sets.  The input mesh is object 1 of `meshes`, the shapes of    *)
(* the input part list are objects 2.., the input list is object 1 of      *)
(* `lists`.  Without the trimesh library no Trimesh can be built, so the   *)
(* mesh argument is then None.                                             *)
(***************************************************************************)
PartLists ==
    UNION {{[i \in 1..n |-> <<f[i], i + 1>>] : f \in [1..n -> Names]} : n \in 0..MaxParts}

NoArgs == [mesh |-> None, parts |-> 1, enabled |-> FALSE, mode |-> "aabb", pad_rel |-> 0,
           pad_rel2 |-> 0, library_file |-> <<>>, matlib |-> <<>>,
           force |-> FALSE, part_name |-> "Bounds"]
Heaps == [meshes |-> meshes, lists |-> lists]
NoLast == [op |-> "none", path |-> PyNone]
NoRes == [exc |-> NoExc, val |-> None, flag |-> FALSE, H |-> [meshes |-> <<>>, lists |-> <<>>]]

EncInit ==
    /\ trimesh \in BOOLEAN
    /\ \E mv \in MeshValues, m \in {None, 1} :
          /\ ~trimesh => m = None
          /\ m = None => mv = OpenQuad
          /\ meshes = <<mv>> \o [i \in 1..MaxParts |-> Component(i)]
          /\ args = [NoArgs EXCEPT !.mesh = m]
    /\ lists \in {<<items>> : items \in PartLists}
    /\ pc = "ready"
    /\ res = NoRes
    /\ res2 = NoRes
    /\ h0 = [meshes |-> meshes, lists |-> lists]
    /\ win = FreshWindow
    /\ project_files = EmptyMap
    /\ last = NoLast
    /\ steps = 0

Finish(fn, a, r) ==
    /\ pc' = fn
    /\ args' = a
    /\ res' = r
    /\ meshes' = res'.H.meshes
    /\ lists' = res'.H.lists
    /\ UNCHANGED <<trimesh, res2, h0>>
    /\ UNCHANGED wvars

CallIsWatertight ==
    /\ pc = "ready"
    /\ Finish("is_watertight", args, is_watertight(Heaps, args.mesh))

CallMakeBoundingBox ==
    /\ pc = "ready"
    /\ \E mode \in Modes, pad_rel \in PadRels :
          Finish("make_bounding_box", [args EXCEPT !.mode = mode, !.pad_rel = pad_rel],
                 make_bounding_box(Heaps, args.mesh, mode, pad_rel))

CallAddOrUpdateEnclosure ==
    /\ pc = "ready"
    /\ \E enabled \in BOOLEAN, mode \in Modes, pad_rel \in PadRels, force \in BOOLEAN,
          part_name \in PartNameArgs :
          Finish("add_or_update_enclosure",
                 [args EXCEPT !.enabled = enabled, !.mode = mode, !.pad_rel = pad_rel,
                              !.force = force, !.part_name = part_name],
                 add_or_update_enclosure(Heaps, args.mesh, args.parts, enabled, mode, pad_rel,
                                         force, part_name))

\* the result fed back in with the same arguments
CallAgain ==
    /\ pc = "add_or_update_enclosure"
    /\ res.exc = NoExc
    /\ pc' = "again"
    /\ res2' = add_or_update_enclosure(Heaps, args.mesh, res.val, args.enabled, args.mode,
                                       args.pad_rel, args.force, args.part_name)
    /\ meshes' = res2'.H.meshes
    /\ lists' = res2'.H.lists
    /\ UNCHANGED <<trimesh, args, res, h0>>
    /\ UNCHANGED wvars

CallReorderBoundsLast ==
    /\ pc = "ready"
    /\ Finish("reorder_bounds_last", args, reorder_bounds_last(Heaps, args.parts))

\* both enclosure managers on the same arguments, force being false:
\* res is what add_or_update_enclosure returns, res2 what
\* add_enclosure_if_needed returns
CallBothEnclosureManagers ==
    /\ pc = "ready"
    /\ \E enabled \in BOOLEAN, mode \in Modes, pad_rel \in PadRels :
          /\ args' = [args EXCEPT !.enabled = enabled, !.mode = mode, !.pad_rel = pad_rel,
                                  !.force = FALSE, !.part_name = "Bounds"]
          /\ res' = add_or_update_enclosure(Heaps, args.mesh, args.parts, enabled, mode,
                                            pad_rel, FALSE, "Bounds")
          /\ res2' = add_enclosure_if_needed(Heaps, args.mesh, args.parts, enabled, mode,
                                             pad_rel, "Bounds")
    /\ pc' = "both_managers"
    /\ meshes' = res'.H.meshes
    /\ lists' = res'.H.lists
    /\ UNCHANGED <<trimesh, h0>>
    /\ UNCHANGED wvars

\* app.py's on_enclosure_now on a state whose mesh and parts are the inputs,
\* the widgets standing at enabled, mode and pad_rel
CallAppEnclosureNow ==
    /\ pc = "ready"
    /\ \E enabled \in BOOLEAN, mode \in {"aabb", "obb"}, pad_rel \in PadRels :
          Finish("app_on_enclosure_now",
                 [args EXCEPT !.enabled = enabled, !.mode = mode, !.pad_rel = pad_rel,
                              !.force = TRUE, !.part_name = "Bounds"],
                 app_on_enclosure_now(Heaps, args.mesh, args.parts, enabled, mode, pad_rel))

\* make_bounding_box on the same mesh and mode with two pad_rel, the second
\* not below the first: res is the first shell, res2 the second
CallMakeBoundingBoxTwice ==
    /\ pc = "ready"
    /\ \E mode \in Modes, pad_rel \in PadRels, pad_rel2 \in PadRels :
          /\ pad_rel <= pad_rel2
          /\ args' = [args EXCEPT !.mode = mode, !.pad_rel = pad_rel, !.pad_rel2 = pad_rel2]
          /\ res' = make_bounding_box(Heaps, args.mesh, mode, pad_rel)
          /\ res2' = make_bounding_box(Heaps, args.mesh, mode, pad_rel2)
    /\ pc' = "make_bounding_box_twice"
    /\ meshes' = res'.H.meshes
    /\ lists' = res'.H.lists
    /\ UNCHANGED <<trimesh, h0>>
    /\ UNCHANGED wvars

\* MaterialDB.from_json on a library file, as the constructor of the window
\* calls it: the library becomes state.matlib, or the exception is logged
CallFromJson ==
    /\ pc = "ready"
    /\ \E data \in LibraryFiles :
          /\ args' = [args EXCEPT !.library_file = data]
          /\ res' = [NoRes EXCEPT !.exc = from_json(data).exc]
          /\ win' = [win EXCEPT !.matlib = from_json(data).lib]
    /\ pc' = "from_json"
    /\ UNCHANGED <<trimesh, meshes, lists, res2, h0, project_files, last, steps>>

\* the libraries ensure_free_space_material is called with: none, the ones
\* a window starts with, the ones from_json loads
Libraries ==
    {<<>>, <<LibPlain>>, <<LibWithBoundary>>} \cup {from_json(data).lib : data \in LibraryFiles}

\* ensure_free_space_material called twice in a row on the window's library:
\* res holds the name the first call returned, res2 the second call's, win
\* the window after both
CallEnsureFreeSpaceTwice ==
    /\ pc = "ready"
    /\ \E lib \in Libraries :
          /\ args' = [args EXCEPT !.matlib = lib]
          /\ res' = [NoRes EXCEPT !.val =
                       ensure_free_space_material([win EXCEPT !.matlib = lib]).name]
          /\ res2' = [NoRes EXCEPT !.val =
                        ensure_free_space_material(
                          ensure_free_space_material([win EXCEPT !.matlib = lib]).W).name]
          /\ win' = ensure_free_space_material(
                       ensure_free_space_material([win EXCEPT !.matlib = lib]).W).W
    /\ pc' = "ensure_free_space_material_twice"
    /\ UNCHANGED <<trimesh, meshes, lists, h0, project_files, last, steps>>

EncNext ==
    \/ CallIsWatertight
    \/ CallMakeBoundingBox
    \/ CallAddOrUpdateEnclosure
    \/ CallAgain
    \/ CallReorderBoundsLast
    \/ CallBothEnclosureManagers
    \/ CallAppEnclosureNow
    \/ CallMakeBoundingBoxTwice
    \/ CallFromJson
    \/ CallEnsureFreeSpaceTwice

EncSpec == EncInit /\ [][EncNext]_vars

\* a project file an earlier session left on disk; the mesh file it names has
\* since been removed
ExistingProjectPath == "old.atlasproj.json"
\* two more files on disk that are not projects
TornProjectPath == "torn.atlasproj.json"
ListProjectPath == "list.atlasproj.json"
ExistingProject ==
    serialize_project("gone.obj", ("Part_0" :> "Concrete") @@ ("Bounds" :> "Free Space"),
                      "wireframe", [enabled |-> TRUE, mode |-> "obb", pad |-> 10 * (PadDen \div 100)], 1)

(***************************************************************************)
(* The main window under user actions.  The constructor has run: the       *)
(* default material library was loaded, or was absent or unreadable.       *)
(***************************************************************************)
WinInit ==
    /\ trimesh \in BOOLEAN
    /\ meshes = <<>>
    /\ lists = <<>>
    /\ pc = "window"
    /\ args = NoArgs
    /\ res = NoRes
    /\ res2 = NoRes
    /\ h0 = [meshes |-> <<>>, lists |-> <<>>]
    /\ \E lib \in {<<>>, <<LibPlain>>, <<LibWithBoundary>>} :
          win = IF lib = <<>> THEN FreshWindow
                ELSE refresh_materials_list([FreshWindow EXCEPT !.matlib = lib])
    /\ project_files = (ExistingProjectPath :> ExistingProject)
                       @@ (TornProjectPath :> NotJson) @@ (ListProjectPath :> JsonList)
    /\ last = [op |-> "init", path |-> PyNone]
    /\ steps = 0

Handled(op, path, W) ==
    /\ pc = "window"
    /\ steps < MaxSteps
    /\ win' = W
    /\ last' = [op |-> op, path |-> path]
    /\ steps' = steps + 1
    /\ UNCHANGED hvars

\* MainWindow.on_load_geometry, the dialog returning a file
OnLoadGeometry ==
    \E path \in MeshPaths :
       IF uncaught(load_and_split(path).exc)
       THEN /\ pc = "window"
            /\ steps < MaxSteps
            /\ pc' = "uncaught"
            /\ last' = [op |-> "load_geometry", path |-> path]
            /\ steps' = steps + 1
            /\ UNCHANGED <<trimesh, meshes, lists, args, res, res2, h0, win, project_files>>
       ELSE /\ Handled("load_geometry", path, load_mesh_from_path(win, path))
            /\ UNCHANGED project_files

OnEnclosureNow ==
    /\ Handled("enclosure_now", PyNone, on_enclosure_now(win))
    /\ UNCHANGED project_files

\* a click on a row of the parts list
OnPartSelected ==
    \E row \in 0..(Len(win.parts_list.rows) - 1) :
       /\ row # win.parts_list.current
       /\ Handled("part_selected", PyNone, on_part_selected(win, row))
       /\ UNCHANGED project_files

OnAssignMaterial ==
    \E item \in win.materials_list \cup {PyNone} :
       /\ Handled("assign_material", PyNone, on_assign_material(win, item))
       /\ UNCHANGED project_files

\* a right click on a row of the parts list, and the menu's action chosen
PartsContextMenu ==
    /\ Len(win.parts_list.rows) > 0
    /\ Handled("context_menu", PyNone, parts_context_menu(win))
    /\ UNCHANGED project_files

NewProject ==
    /\ Handled("new_project", PyNone, new_project(win))
    /\ UNCHANGED project_files

\* MainWindow.open_project, the dialog returning a file on disk
OpenProject ==
    \E path \in DOMAIN project_files :
       /\ Handled(IF open_project_fails(project_files[path])
                  THEN "open_project_failed" ELSE "open_project",
                  path, open_project(win, path, project_files))
       /\ UNCHANGED project_files

\* MainWindow.save_project_as, the dialog returning a path, then save_project
SaveProjectAs ==
    \E path \in ProjectPaths :
       /\ Handled("save_project_as", path, [win EXCEPT !.current_project_file = path])
       /\ project_files' = SetItem(project_files, path, window_serialize_project(win))

\* MainWindow.save_project
SaveProject ==
    IF win.current_project_file = PyNone THEN SaveProjectAs
    ELSE /\ Handled("save_project", win.current_project_file, win)
         /\ project_files' = SetItem(project_files, win.current_project_file,
                                     window_serialize_project(win))

\* the user changes a widget of the geometry dock
EditEnclosureChecked ==
    /\ Handled("edit", PyNone, [win EXCEPT !.chk_enclosure = ~@])
    /\ UNCHANGED project_files
EditEnclosureMode ==
    /\ Handled("edit", PyNone,
               [win EXCEPT !.combo_enclosure_mode = IF @ = "AABB (fast)" THEN "OBB (tight)" ELSE "AABB (fast)"])
    /\ UNCHANGED project_files
EditPad ==
    \E v \in PadPercents \ {win.spin_pad} :
       /\ Handled("edit", PyNone, [win EXCEPT !.spin_pad = v])
       /\ UNCHANGED project_files
EditRenderMode ==
    /\ Handled("edit", PyNone, [win EXCEPT !.combo_mode = IF @ = "Shaded" THEN "Wireframe" ELSE "Shaded"])
    /\ UNCHANGED project_files

\* ProjectState.set_parts, which no handler calls, applied to the state the
\* window has reached; no handler runs after it
CallSetParts ==
    /\ pc = "window"
    /\ steps < MaxSteps
    /\ pc' = "set_parts"
    /\ win' = set_parts(win, MeshFile("open.obj").mesh, MeshFile("open.obj").comps)
    /\ last' = [op |-> "set_parts", path |-> "open.obj"]
    /\ steps' = steps + 1
    /\ UNCHANGED <<trimesh, meshes, lists, args, res, res2, h0, project_files>>

WinNext ==
    \/ OnLoadGeometry
    \/ OnEnclosureNow
    \/ OnPartSelected
    \/ OnAssignMaterial
    \/ PartsContextMenu
    \/ NewProject
    \/ OpenProject
    \/ SaveProjectAs
    \/ SaveProject
    \/ EditEnclosureChecked
    \/ EditEnclosureMode
    \/ EditPad
    \/ EditRenderMode
    \/ CallSetParts

WinSpec == WinInit /\ [][WinNext]_vars

\* either kind of run
Init == EncInit \/ WinInit
Next == EncNext \/ WinNext
Spec == Init /\ [][Next]_vars

(***************************************************************************)
(* What the claims speak of                                                *)
(***************************************************************************)
RECURSIVE Without(_, _)
\* the entries of s not named n, in their order
Without(s, n) ==
    IF s = <<>> THEN <<>>
    ELSE IF Head(s)[1] = n THEN Without(Tail(s), n)
    ELSE <<Head(s)>> \o Without(Tail(s), n)

RECURSIVE Only(_, _)
\* the entries of s named n, in their order
Only(s, n) ==
    IF s = <<>> THEN <<>>
    ELSE IF Head(s)[1] = n THEN <<Head(s)>> \o Only(Tail(s), n)
    ELSE Only(Tail(s), n)

NamesOf(s) == [i \in 1..Len(s) |-> s[i][1]]
Count(s, n) == Cardinality({i \in 1..Len(s) : s[i][1] = n})

InputItems == h0.lists[args.parts]
ResultItems(r) == r.H.lists[r.val]
Called(fn) == pc = fn

\* the input mesh is one make_bounding_box builds a shell for
Constructible ==
    /\ trimesh
    /\ args.mesh # None
    /\ Len(h0.meshes[args.mesh].vertices) > 0
    /\ Lower(args.mode) = "obb" => h0.meshes[args.mesh].pit.ok

\* the input mesh's own predicate answers true
Watertight == args.mesh # None /\ h0.meshes[args.mesh].wt = "true"

\* the objects that were there before the call are as they were
InputsUntouched(r) ==
    /\ \A i \in 1..Len(h0.meshes) : r.H.meshes[i] = h0.meshes[i]
    /\ \A i \in 1..Len(h0.lists) : r.H.lists[i] = h0.lists[i]

\* the list returned is the stripped input followed by one new shell named part_name
StrippedPlusShell(r) ==
    LET items == ResultItems(r)
        direct == make_bounding_box(h0, args.mesh, args.mode, args.pad_rel)
    IN /\ Len(items) = Len(Without(InputItems, args.part_name)) + 1
       /\ SubSeq(items, 1, Len(items) - 1) = Without(InputItems, args.part_name)
       /\ items[Len(items)][1] = args.part_name
       /\ items[Len(items)][2] > Len(h0.meshes)
       /\ r.H.meshes[items[Len(items)][2]] = direct.H.meshes[direct.val]

\* C1: add_or_update_enclosure is idempotent: fed its own result with the same
\* arguments it returns the same part names in the same order, and no result
\* holds more than one entry named part_name.
C1_Idempotent ==
    /\ Called("add_or_update_enclosure") /\ res.exc = NoExc
          => Count(ResultItems(res), args.part_name) <= 1
    /\ Called("again")
          => /\ res2.exc = NoExc
             /\ NamesOf(ResultItems(res2)) = NamesOf(ResultItems(res))
             /\ Count(ResultItems(res2), args.part_name) <= 1

C1_Witness ==
    /\ Called("again")
    /\ Count(InputItems, args.part_name) >= 2
    /\ InputItems[1][1] = args.part_name
    /\ Count(ResultItems(res2), args.part_name) = 1

\* C2 as stated: with force=true the result holds, for every mesh and either
\* value of enabled, exactly one entry named part_name, and it is last.
C2_ForceAlwaysAdds ==
    Called("add_or_update_enclosure") /\ args.force /\ args.mesh # None
       => /\ res.exc = NoExc
          /\ Count(ResultItems(res), args.part_name) = 1
          /\ ResultItems(res)[Len(ResultItems(res))][1] = args.part_name

\* C2 amended: with force=true, for every mesh (watertight or not) that
\* make_bounding_box builds a shell for and either value of enabled, the result
\* is the stripped list followed by exactly one new entry named part_name; for
\* a mesh whose shell construction fails, the result is the stripped list with
\* no entry named part_name.
C2_ForceAddsWhenConstructible ==
    Called("add_or_update_enclosure") /\ args.force
       => /\ res.exc = NoExc
          /\ IF Constructible
             THEN StrippedPlusShell(res) /\ Count(ResultItems(res), args.part_name) = 1
             ELSE ResultItems(res) = Without(InputItems, args.part_name)

C2_Witness ==
    /\ Called("add_or_update_enclosure")
    /\ args.force /\ ~args.enabled
    /\ Watertight /\ Constructible
    /\ Count(InputItems, args.part_name) >= 1
    /\ InputItems[Len(InputItems)][1] # args.part_name
    /\ Count(ResultItems(res), args.part_name) = 1

\* C3: with enabled=false and force=false the result is, for every mesh and
\* every input list, the input list without its entries named part_name, the
\* others in their original order.
C3_DisabledOnlyStrips ==
    Called("add_or_update_enclosure") /\ ~args.enabled /\ ~args.force
       => /\ res.exc = NoExc
          /\ ResultItems(res) = Without(InputItems, args.part_name)
          /\ Count(ResultItems(res), args.part_name) = 0

C3_Witness ==
    /\ Called("add_or_update_enclosure")
    /\ ~args.enabled /\ ~args.force
    /\ ~Watertight /\ Constructible
    /\ Count(InputItems, args.part_name) >= 1
    /\ Len(ResultItems(res)) >= 1

\* C4: with enabled=true and force=false, a watertight mesh yields the stripped
\* list, and a mesh that is not watertight and whose shell construction
\* succeeds yields the stripped list followed by one (part_name, shell) entry.
C4_EnabledFollowsWatertightness ==
    Called("add_or_update_enclosure") /\ args.enabled /\ ~args.force
       => /\ res.exc = NoExc
          /\ Watertight => ResultItems(res) = Without(InputItems, args.part_name)
          /\ ~Watertight /\ Constructible => StrippedPlusShell(res)

C4_Witness ==
    /\ Called("add_or_update_enclosure")
    /\ args.enabled /\ ~args.force
    /\ ~Watertight /\ Constructible
    /\ h0.meshes[args.mesh].wt = "raises"
    /\ Count(ResultItems(res), args.part_name) = 1

\* the shell construction the call's arguments ask for fails
ShellFails == make_bounding_box(h0, args.mesh, args.mode, args.pad_rel).exc # NoExc
\* add_or_update_enclosure gets as far as make_bounding_box
ShellAttempted == args.force \/ (args.enabled /\ ~Watertight)
\* the parts _load_mesh_from_path names before the enclosure step
NamedComponents(path) ==
    [i \in 1..Len(MeshFile(path).comps) |-> <<PartName(i - 1), MeshFile(path).comps[i]>>]
\* the file loads, and the window's settings make the load attempt a shell
\* that make_bounding_box fails to build
LoadHitsEnclosureFailure(path) ==
    /\ trimesh
    /\ MeshFile(path).loads
    /\ win.chk_enclosure
    /\ MeshFile(path).mesh.wt # "true"
    /\ make_bounding_box(ToHeaps(MeshFile(path).mesh, <<>>), 1, enclosure_settings(win).mode,
                         enclosure_settings(win).pad).exc # NoExc

\* C5: when make_bounding_box fails inside add_or_update_enclosure (empty mesh,
\* missing mesh library, failing transform), add_or_update_enclosure does not
\* raise and returns the input list without its part_name entries, in their
\* order, with no enclosure; and a mesh load whose enclosure step fails this way
\* completes: the window holds the loaded mesh, its path, and the named
\* components without a Bounds part.
C5_EnclosureFailureContained ==
    /\ Called("add_or_update_enclosure") /\ ShellAttempted /\ ShellFails
          => /\ res.exc = NoExc
             /\ ResultItems(res) = Without(InputItems, args.part_name)
             /\ Count(ResultItems(res), args.part_name) = 0
    /\ last.op = "load_geometry" /\ LoadHitsEnclosureFailure(last.path)
          => /\ win.mesh = <<MeshFile(last.path).mesh>>
             /\ win.current_mesh_path = last.path
             /\ win.parts = NamedComponents(last.path)
             /\ win.parts_list.rows = NamesOf(win.parts)
             /\ ~HasBounds(win.parts)

C5_Witness ==
    /\ last.op = "load_geometry"
    /\ LoadHitsEnclosureFailure(last.path)
    /\ Len(win.parts) >= 1
    /\ win.current_mesh_path = last.path

\* C6 as stated: for every bounds_name, reorder_bounds_last returns a
\* permutation of its input in which the entries not named bounds_name keep
\* their order and every entry named bounds_name comes after them.
StablePartition(in, out, n) ==
    /\ Len(out) = Len(in)
    /\ {out[i] : i \in 1..Len(out)} = {in[i] : i \in 1..Len(in)}
    /\ Without(out, n) = Without(in, n)
    /\ \A i, j \in 1..Len(out) : i < j /\ out[i][1] = n => out[j][1] = n
C6_StablePartitionAnyName ==
    Called("reorder_bounds_last")
       => \A n \in Names : StablePartition(InputItems, ResultItems(res), n)

\* C6 amended: reorder_bounds_last takes no bounds_name; for the fixed name
\* "Bounds" it returns a permutation of its input in which the entries not
\* named "Bounds" keep their order and every entry named "Bounds" comes after
\* them.
C6_StablePartitionBounds ==
    Called("reorder_bounds_last")
       => /\ res.exc = NoExc
          /\ StablePartition(InputItems, ResultItems(res), "Bounds")

C6_Witness ==
    /\ Called("reorder_bounds_last")
    /\ Len(InputItems) >= 3
    /\ InputItems[1][1] = "Bounds"
    /\ InputItems[2][1] # "Bounds"
    /\ ResultItems(res) # InputItems

\* C7: is_watertight never raises and changes nothing; it returns false for a
\* null mesh and when the mesh's predicate raises, and the predicate's value
\* otherwise.
C7_WatertightFailsSafe ==
    Called("is_watertight")
       => /\ res.exc = NoExc
          /\ res.H = h0
          /\ res.flag = (args.mesh # None /\ h0.meshes[args.mesh].wt = "true")

C7_Witness ==
    /\ Called("is_watertight")
    /\ args.mesh # None
    /\ h0.meshes[args.mesh].wt = "raises"
    /\ ~res.flag

\* C8: make_bounding_box on a mesh with no vertices raises ValueError in both
\* modes and for every pad_rel, and returns no shell.
C8_EmptyMeshRejected ==
    Called("make_bounding_box") /\ args.mesh # None /\ Len(h0.meshes[args.mesh].vertices) = 0
       => /\ res.exc = "ValueError"
          /\ res.val = None
          /\ res.H.meshes = h0.meshes

C8_Witness ==
    /\ Called("make_bounding_box")
    /\ args.mesh # None
    /\ Len(h0.meshes[args.mesh].vertices) = 0
    /\ Lower(args.mode) = "obb"
    /\ args.pad_rel > 0
    /\ res.exc = "ValueError"

\* C9: after make_bounding_box or add_or_update_enclosure returns or fails, the
\* input mesh and the input part list (and the shapes it names) are as before
\* the call, and the list and the shell returned are new objects.
C9_InputsUnchanged ==
    /\ Called("make_bounding_box")
          => /\ InputsUntouched(res)
             /\ res.exc = NoExc => res.val > Len(h0.meshes)
    /\ Called("add_or_update_enclosure")
          => /\ InputsUntouched(res)
             /\ res.exc = NoExc
                   => /\ res.val > Len(h0.lists)
                      /\ \A i \in 1..Len(ResultItems(res)) :
                            \/ ResultItems(res)[i] \in {InputItems[j] : j \in 1..Len(InputItems)}
                            \/ ResultItems(res)[i][2] > Len(h0.meshes)

C9_Witness ==
    /\ Called("add_or_update_enclosure")
    /\ Lower(args.mode) = "obb"
    /\ Constructible
    /\ h0.meshes[args.mesh].pit # IdentityT
    /\ Count(InputItems, args.part_name) >= 1
    /\ Count(ResultItems(res), args.part_name) = 1

\* the pad the enclosure widgets stand for and the pad of the file differ by
\* no more than 1/100
PadWithinOneHundredth(W, data) ==
    /\ enclosure_settings(W).pad - data.enclosure.pad <= PadDen \div 100
    /\ data.enclosure.pad - enclosure_settings(W).pad <= PadDen \div 100

\* C10: after a project file written by the window is opened, the enclosure
\* pad of the window is within 1/100 of the pad in the file, and every part of
\* the part list whose name has a material in the file is assigned that
\* material.
C10_ProjectRoundTrip ==
    last.op = "open_project"
       => /\ PadWithinOneHundredth(win, project_files[last.path])
          /\ \A i \in 1..Len(win.parts) :
                win.parts[i][1] \in DOMAIN project_files[last.path].assignments
                   => /\ win.parts[i][1] \in DOMAIN win.assignments
                      /\ win.assignments[win.parts[i][1]]
                            = project_files[last.path].assignments[win.parts[i][1]]

C10_Witness ==
    /\ last.op = "open_project"
    /\ project_files[last.path].mesh_path = "open.obj"
    /\ project_files[last.path].enclosure.pad > 0
    /\ "Part_1" \in DOMAIN project_files[last.path].assignments
    /\ "Part_1" \in DOMAIN win.assignments
    /\ \E i \in 1..Len(win.parts) : win.parts[i][1] = "Part_1"

\* the names of the parts the window holds
PartNames(W) == {W.parts[i][1] : i \in 1..Len(W.parts)}
\* this step is open_project reading the file at last'.path
OpenProjectStep == last'.op = "open_project" /\ steps' = steps + 1

\* C11: when a project file is opened, a saved assignment whose part name is
\* not in the part list after the mesh (if any) has been reloaded and re-split
\* is not added to the assignments mapping (an entry under that name is one
\* the mapping held before, unchanged); and a file whose mesh_path is null or
\* names no existing file is still loaded: the widgets are restored, the
\* project file is current, and the part list is the one held before.
C11_OnlyPresentPartsRestored ==
    [][OpenProjectStep =>
         /\ \A n \in DOMAIN project_files[last'.path].assignments \ PartNames(win') :
               n \in DOMAIN win'.assignments
                  => n \in DOMAIN win.assignments /\ win'.assignments[n] = win.assignments[n]
         /\ (project_files[last'.path].mesh_path = PyNone
                \/ ~path_exists(project_files[last'.path].mesh_path))
               => /\ win'.parts = win.parts
                  /\ win'.mesh = win.mesh
                  /\ win'.current_project_file = last'.path
                  /\ win'.chk_enclosure = project_files[last'.path].enclosure.enabled
                  /\ enclosure_settings(win').mode = project_files[last'.path].enclosure.mode]_vars

\* the file saved a material for Bounds, the reload built no Bounds, and the
\* mapping holds none; a part that is present got its saved material
C11_Witness ==
    /\ last.op = "open_project"
    /\ "Bounds" \in DOMAIN project_files[last.path].assignments
    /\ project_files[last.path].mesh_path = "open.obj"
    /\ PartNames(win) = {"Part_0", "Part_1"}
    /\ "Bounds" \notin DOMAIN win.assignments

\* the load of last.path got through load_mesh and split_mesh
LoadSucceeded == last.op = "load_geometry" /\ trimesh /\ MeshFile(last.path).loads

\* C12: after ProjectState.set_parts the assignments mapping is empty; after a
\* successful _load_mesh_from_path the mapping holds nothing but, when the
\* part list has a Bounds part and a free-space material could be found or
\* made, the automatic entry for "Bounds".
C12_LoadClearsAssignments ==
    /\ last.op = "set_parts" => win.assignments = EmptyMap
    /\ LoadSucceeded
          => /\ DOMAIN win.assignments \subseteq {"Bounds"}
             /\ "Bounds" \in DOMAIN win.assignments
                   => /\ HasBounds(win.parts)
                      /\ win.assignments["Bounds"] = ensure_free_space_material(win).name

\* a material had been assigned to Part_0 and saved before this load
C12_Witness ==
    /\ LoadSucceeded
    /\ "a.atlasproj.json" \in DOMAIN project_files
    /\ "Part_0" \in DOMAIN project_files["a.atlasproj.json"].assignments
    /\ "Part_0" \in PartNames(win)
    /\ "Part_0" \notin DOMAIN win.assignments

\* C13: after new_project, from whatever state it ran in, the mesh is null,
\* the part list is empty, the material library is null, the assignments are
\* empty, the selected part index is -1, and the current project file and
\* mesh path are null.
C13_NewProjectResets ==
    last.op = "new_project"
       => /\ win.mesh = <<>>
          /\ win.parts = <<>>
          /\ win.matlib = <<>>
          /\ win.assignments = EmptyMap
          /\ win.current_part_index = -1
          /\ win.current_project_file = PyNone
          /\ win.current_mesh_path = PyNone

\* a library had been loaded, and a mesh had been loaded and saved in a project
C13_Witness ==
    /\ last.op = "new_project"
    /\ "Concrete" \in win.materials_list
    /\ "a.atlasproj.json" \in DOMAIN project_files
    /\ project_files["a.atlasproj.json"].mesh_path # PyNone
    /\ win.matlib = <<>>

\* C14: whatever the user has done (load, enclosure, assign, open, new, ...),
\* the part list of the project state holds at most one part named "Bounds",
\* and it is the last one; the rows of the parts widget are the names of
\* state.parts in the same order, so row i is part i, and the selected index
\* is -1 or an index of state.parts.
C14_BoundsLastInState ==
    pc = "window"
       => /\ Count(win.parts, "Bounds") <= 1
          /\ HasBounds(win.parts) => win.parts[Len(win.parts)][1] = "Bounds"
          /\ win.parts_list.rows = NamesOf(win.parts)
          /\ NamesOf(FromHeaps(reorder_bounds_last(ToHeaps(EmptyMesh, win.parts), 1)))
                = NamesOf(win.parts)
          /\ win.current_part_index \in -1..(Len(win.parts) - 1)
          /\ win.parts_list.current = win.current_part_index

\* the Bounds row is the one selected
C14_Witness ==
    /\ pc = "window"
    /\ last.op = "part_selected"
    /\ Len(win.parts) = 3
    /\ win.current_part_index = 2
    /\ win.parts[3][1] = "Bounds"
    /\ win.parts_list.rows[3] = "Bounds"

\* C15: in every reachable state of the project the names of the part list
\* are pairwise distinct: the parts before a Bounds part are named Part_0,
\* Part_1, ... by position, and "Bounds" names at most one part.
C15_PartNamesDistinct ==
    /\ \A i, j \in 1..Len(win.parts) : i # j => win.parts[i][1] # win.parts[j][1]
    /\ \A i \in 1..Len(win.parts) :
          win.parts[i][1] # "Bounds" => win.parts[i][1] = PartName(i - 1)
    /\ Count(win.parts, "Bounds") <= 1

\* two components and a Bounds part that on_enclosure_now replaced
C15_Witness ==
    /\ last.op = "enclosure_now"
    /\ NamesOf(win.parts) = <<"Part_0", "Part_1", "Bounds">>

\* the harness mesh is one geometry.load_mesh hands to the state: it has
\* vertices and faces
AppMeshLoaded ==
    /\ trimesh
    /\ args.mesh # None
    /\ Len(h0.meshes[args.mesh].vertices) > 0
    /\ Len(h0.meshes[args.mesh].faces) > 0

\* C16: after on_enclosure_now has run with a mesh loaded, the part list
\* holds exactly one part named "Bounds", whether the mesh is watertight or
\* not and whatever the checkbox says; this in main_window.py's window and in
\* app.py's.
C16_EnclosureNowEnsuresBounds ==
    /\ (last.op = "enclosure_now" /\ win.mesh # <<>>) => Count(win.parts, "Bounds") = 1
    /\ (Called("app_on_enclosure_now") /\ AppMeshLoaded /\ res.exc = NoExc)
          => Count(ResultItems(res), "Bounds") = 1

LoadGeometryStep == last'.op = "load_geometry" /\ steps' = steps + 1
LoadFails(path) == load_and_split(path).exc # NoExc

\* C17: a load_geometry step whose load or split fails (file unreadable or
\* empty, mesh library missing) ends inside the handler, no exception leaving
\* it, and the mesh, the part list, the assignments and current_mesh_path are
\* after the step what they were before it.
C17_FailedLoadChangesNothing ==
    [][(LoadGeometryStep /\ LoadFails(last'.path))
         => /\ pc' = "window"
            /\ win'.mesh = win.mesh
            /\ win'.parts = win.parts
            /\ win'.assignments = win.assignments
            /\ win'.current_mesh_path = win.current_mesh_path]_vars

\* a failed load after a mesh was loaded, enclosed and assigned
C17_Witness ==
    /\ last.op = "load_geometry"
    /\ LoadFails(last.path)
    /\ trimesh
    /\ win.mesh # <<>>
    /\ HasBounds(win.parts)
    /\ win.assignments # EmptyMap
    /\ win.current_mesh_path \notin {PyNone, last.path}

\* the part list add_enclosure_if_needed returned
OtherItems == res2.H.lists[res2.val]

\* C18: on the same mesh, part list, enabled flag, mode and pad_rel,
\* geometry.add_enclosure_if_needed and
\* geometry_tools.add_or_update_enclosure with force = false return lists
\* with the same part names in the same order, also when the input list holds
\* a part named "Bounds" and when enabled is false.
C18_ManagersAgree ==
    Called("both_managers")
       => /\ res.exc = res2.exc
          /\ res.exc = NoExc => NamesOf(ResultItems(res)) = NamesOf(OtherItems)

Cross(u, v) ==
    <<u[2] * v[3] - u[3] * v[2], u[3] * v[1] - u[1] * v[3], u[1] * v[2] - u[2] * v[1]>>
Dot(u, v) == u[1] * v[1] + u[2] * v[2] + u[3] * v[3]
Minus(u, v) == [a \in Axes |-> u[a] - v[a]]

Sign(n) == IF n > 0 THEN 1 ELSE IF n < 0 THEN -1 ELSE 0

\* the normal of face f of mesh m by the right-hand rule
Normal(m, f) ==
    Cross(Minus(m.vertices[f[2] + 1], m.vertices[f[1] + 1]),
          Minus(m.vertices[f[3] + 1], m.vertices[f[1] + 1]))

\* the normal runs along one axis, or the face has no area
AxisParallel(n) == Cardinality({x \in Axes : n[x] # 0}) <= 1

\* the normal of face f, dotted with the vector from the box's centre to the
\* face's centroid (scaled by 6): positive for a face that looks away from
\* the centre.  Of a normal along one axis only the signs of the components
\* are taken.  Corners 1 and 8 of a box are opposite.
Outwardness(m, f) ==
    LET a == m.vertices[f[1] + 1]
        b == m.vertices[f[2] + 1]
        c == m.vertices[f[3] + 1]
        n == Normal(m, f)
    IN Dot(IF AxisParallel(n) THEN [x \in Axes |-> Sign(n[x])] ELSE n,
           [x \in Axes |-> 2 * (a[x] + b[x] + c[x]) - 3 * (m.vertices[1][x] + m.vertices[8][x])])

\* the box make_bounding_box has before it reverses the faces
OutwardBox ==
    LET m == h0.meshes[args.mesh]
        pad == abs_pad(mesh_bounds(m), args.pad_rel)
    IN IF Lower(args.mode) = "obb"
       THEN apply_transform(padded_box(mesh_bounds(apply_transform(m, linalg_inv(m.pit))), pad), m.pit)
       ELSE padded_box(mesh_bounds(m), pad)

\* the box has no zero extent
Solid(box) == \A i \in DOMAIN box.faces : Outwardness(box, box.faces[i]) # 0

ShellOf(r) == r.H.meshes[r.val]

\* shell is box with every face reversed; the faces of box look away from
\* its centre and the faces of shell look at it
ReversedBox(shell, box) ==
    /\ shell.vertices = box.vertices
    /\ Len(shell.faces) = Len(box.faces)
    /\ \A i \in DOMAIN box.faces :
          /\ shell.faces[i] = <<box.faces[i][3], box.faces[i][2], box.faces[i][1]>>
          /\ Outwardness(box, box.faces[i]) >= 0
          /\ Outwardness(shell, shell.faces[i]) = -Outwardness(box, box.faces[i])
    /\ Solid(box) => \A i \in DOMAIN shell.faces : Outwardness(shell, shell.faces[i]) < 0

\* C19: a shell make_bounding_box returns, in AABB and in OBB mode, has the
\* vertices of the outward-facing box it was built from and the same faces,
\* each with its winding reversed ((a,b,c) is (c,b,a)); every face of the
\* outward box looks away from the centre, and every face of the shell looks
\* at it.
C19_ShellFacesInward ==
    (Called("make_bounding_box") /\ res.exc = NoExc) => ReversedBox(ShellOf(res), OutwardBox)

\* an oriented shell about a turned mesh, padded
C19_Witness ==
    /\ Called("make_bounding_box")
    /\ res.exc = NoExc
    /\ Solid(OutwardBox)
    /\ Lower(args.mode) = "obb"
    /\ h0.meshes[args.mesh].pit = TurnZ
    /\ args.pad_rel > 0

\* make_bounding_box returned a shell in AABB mode with pad_rel = 0 for a mesh
\* whose bounding diagonal is not zero
AabbUnpadded ==
    /\ Called("make_bounding_box")
    /\ res.exc = NoExc
    /\ Lower(args.mode) # "obb"
    /\ args.pad_rel = 0
    /\ mesh_bounds(h0.meshes[args.mesh]).lo # mesh_bounds(h0.meshes[args.mesh]).hi

\* the sum and the difference of the bounds along axis a are floats
ExactOn(b, a) == Fl(b.lo[a] + b.hi[a]) = b.lo[a] + b.hi[a] /\ Fl(b.hi[a] - b.lo[a]) = b.hi[a] - b.lo[a]

\* bounds c are bounds b to within one unit in the last place of b's larger
\* coordinate, axis by axis, and are b where b's sum and difference are floats
BoundsWithinRounding(c, b) ==
    \A a \in Axes :
       LET ulp == Ulp(IF Abs(b.lo[a]) > Abs(b.hi[a]) THEN b.lo[a] ELSE b.hi[a])
       IN /\ Abs(c.lo[a] - b.lo[a]) <= ulp
          /\ Abs(c.hi[a] - b.hi[a]) <= ulp
          /\ ExactOn(b, a) => c.lo[a] = b.lo[a] /\ c.hi[a] = b.hi[a]

\* C20: in AABB mode with pad_rel = 0, for a mesh with a non-zero bounding
\* diagonal, the bounds of the shell make_bounding_box returns are the bounds
\* of the input mesh up to the rounding of the float arithmetic that rebuilds
\* them from centre and extents: equal where the sum and the difference of the
\* bounds are floats, within one unit in the last place otherwise; the
\* bounding diagonals then differ by no more than the rounding of the sides.
C20_AabbBoundsWithinRounding ==
    AabbUnpadded
       => /\ BoundsWithinRounding(mesh_bounds(ShellOf(res)), mesh_bounds(h0.meshes[args.mesh]))
          /\ Abs(bounds_diag(mesh_bounds(ShellOf(res))) - bounds_diag(mesh_bounds(h0.meshes[args.mesh])))
                <= 2 * Ulp(bounds_diag(mesh_bounds(h0.meshes[args.mesh])))

\* a mesh whose bounds the float arithmetic does not give back exactly
C20_Witness ==
    /\ AabbUnpadded
    /\ \E a \in Axes : ~ExactOn(mesh_bounds(h0.meshes[args.mesh]), a)
    /\ mesh_bounds(ShellOf(res)) # mesh_bounds(h0.meshes[args.mesh])

\* C20 as stated: the bounds of the shell equal the bounds of the input mesh
C20_AabbBoundsEqual ==
    AabbUnpadded => mesh_bounds(ShellOf(res)) = mesh_bounds(h0.meshes[args.mesh])

\* the length of the edge of box m from corner 1 to corner k
EdgeLength(m, k) ==
    ISqrt(Dot(Minus(m.vertices[k], m.vertices[1]), Minus(m.vertices[k], m.vertices[1])))

\* the volume a box encloses, the product of the three edges that meet in
\* corner 1 (they run to corners 5, 3 and 2), as a number of two digits
\* <<high, low>> in base 2^15 (the product of the first two edges is split so
\* that no partial product leaves the integer range)
BoxVolume(m) ==
    LET base == Pow2(15)
        area == EdgeLength(m, 5) * EdgeLength(m, 3)
        height == EdgeLength(m, 2)
    IN <<(area \div base) * height + ((area % base) * height) \div base,
         ((area % base) * height) % base>>
VolumeLeq(u, v) == u[1] < v[1] \/ (u[1] = v[1] /\ u[2] <= v[2])

\* C21: for one mesh and one mode, pad_rel <= pad_rel2 (both >= 0), the
\* shell built with pad_rel encloses no more volume than the shell built with
\* pad_rel2; the two calls fail or succeed together.
C21_VolumeMonotoneInPad ==
    Called("make_bounding_box_twice")
       => /\ res.exc = res2.exc
          /\ res.exc = NoExc
                => VolumeLeq(BoxVolume(ShellOf(res)), BoxVolume(ShellOf(res2)))

\* two different pads about a mesh with three non-zero extents, the second
\* shell strictly larger
C21_Witness ==
    /\ Called("make_bounding_box_twice")
    /\ res.exc = NoExc
    /\ args.pad_rel < args.pad_rel2
    /\ h0.meshes[args.mesh] = ClosedTetra
    /\ ~VolumeLeq(BoxVolume(ShellOf(res2)), BoxVolume(ShellOf(res)))

VertexSet(m) == {m.vertices[i] : i \in DOMAIN m.vertices}

\* the corners of the box centred at the midpoint of bounds b with extents
\* (max - min) + 2 * pad
ExpandedCorners(b, pad) ==
    {[a \in Axes |-> Fl(Fl(b.lo[a] + b.hi[a]) \div 2
                        + side[a] * (Fl(Fl(b.hi[a] - b.lo[a]) + 2 * pad) \div 2))] :
        side \in [Axes -> {-1, 1}]}

\* bounds b with pad added on each side of every axis
Expanded(b, pad) ==
    [lo |-> [a \in Axes |-> b.lo[a] - pad], hi |-> [a \in Axes |-> b.hi[a] + pad]]

\* max(diagonal of the world bounds, 1e-6) * pad_rel
WorldPad(m, pad_rel) == abs_pad(mesh_bounds(m), pad_rel)

\* the mesh expressed in its principal-inertia frame:
\* principal_inertia_transform is the transform that moves a mesh so that its
\* principal axes lie on X, Y and Z and its centroid at the origin
PrincipalFrame(m) == apply_transform(m, m.pit)

\* the shell is the box of pad about the world bounds of mesh m
AabbOf(shell, m, pad) ==
    /\ VertexSet(shell) = ExpandedCorners(mesh_bounds(m), pad)
    /\ BoundsWithinRounding(mesh_bounds(shell), Expanded(mesh_bounds(m), pad))

\* the shell is the box of pad about the bounds of local, carried to the
\* world by T
ObbOf(shell, local, T, pad) ==
    VertexSet(shell) = {TransformPoint(T, c) : c \in ExpandedCorners(mesh_bounds(local), pad)}

\* C22: the shell make_bounding_box returns is the mesh's bounding box with
\* the same pad added on each side of every axis, pad being max(diagonal of
\* the world bounds, 1e-6) * pad_rel: in AABB mode the box about the world
\* bounds, in OBB mode the box about the bounds of the mesh expressed in its
\* principal-inertia frame, carried back to the world.
C22_BoxIsPaddedBounds ==
    (Called("make_bounding_box") /\ res.exc = NoExc)
       => IF Lower(args.mode) = "obb"
          THEN ObbOf(ShellOf(res), PrincipalFrame(h0.meshes[args.mesh]),
                     linalg_inv(h0.meshes[args.mesh].pit),
                     WorldPad(h0.meshes[args.mesh], args.pad_rel))
          ELSE AabbOf(ShellOf(res), h0.meshes[args.mesh],
                      WorldPad(h0.meshes[args.mesh], args.pad_rel))

\* C23: every Material of a library from_json returns has freqs, alpha,
\* scatter and tau of one length, whatever the file: freqs are the native
\* bands, scatter is zeros of alpha's length when the record has none, tau is
\* zeros of alpha's length.
C23_MaterialArraysEqualLength ==
    (Called("from_json") /\ res.exc = NoExc)
       => \A name \in DOMAIN win.matlib[1].items :
             LET mat == win.matlib[1].items[name]
                 rec == args.library_file.materials[name]
             IN /\ Len(mat.freqs) = Len(mat.alpha)
                /\ Len(mat.alpha) = Len(mat.scatter)
                /\ Len(mat.alpha) = Len(mat.tau)
                /\ mat.freqs = win.matlib[1].native_bands
                /\ "scatter" \notin DOMAIN rec => mat.scatter = Zeros(Len(mat.alpha))
                /\ mat.tau = Zeros(Len(mat.alpha))

\* the candidate names the library lib holds, as positions of name_candidates
CandidatesIn(lib) == {i \in DOMAIN name_candidates : name_candidates[i] \in DOMAIN lib.items}
FirstCandidateIn(lib) ==
    name_candidates[CHOOSE i \in CandidatesIn(lib) : \A j \in CandidatesIn(lib) : i <= j]
\* mat is fully absorbing on every band of bands
IsFreeSpace(mat, bands) ==
    /\ mat.name = "Free Space"
    /\ mat.freqs = bands
    /\ mat.alpha = [i \in 1..Len(bands) |-> 100]
    /\ mat.scatter = [i \in 1..Len(bands) |-> 0]
    /\ mat.tau = [i \in 1..Len(bands) |-> 0]

\* C24: ensure_free_space_material returns None and changes nothing when there
\* is no library; returns the first candidate name the library holds, in the
\* order Free Space, FreeSpace, Boundary, Absorbing Boundary, and leaves the
\* library as it was; otherwise adds exactly one material, "Free Space", fully
\* absorbing on every native band, and returns that name. A second call
\* returns the same name and adds nothing.
C24_EnsureFreeSpace ==
    Called("ensure_free_space_material_twice") =>
       /\ res2.val = res.val
       /\ IF args.matlib = <<>>
          THEN res.val = PyNone /\ win.matlib = <<>>
          ELSE IF CandidatesIn(args.matlib[1]) # {}
          THEN res.val = FirstCandidateIn(args.matlib[1]) /\ win.matlib = args.matlib
          ELSE /\ res.val = "Free Space"
               /\ win.matlib[1].native_bands = args.matlib[1].native_bands
               /\ DOMAIN win.matlib[1].items = DOMAIN args.matlib[1].items \cup {"Free Space"}
               /\ \A name \in DOMAIN args.matlib[1].items :
                     win.matlib[1].items[name] = args.matlib[1].items[name]
               /\ IsFreeSpace(win.matlib[1].items["Free Space"], args.matlib[1].native_bands)
\* the second call found the material the first one made, in a library that
\* held materials but no candidate
C24_Witness ==
    /\ Called("ensure_free_space_material_twice")
    /\ args.matlib # <<>>
    /\ DOMAIN args.matlib[1].items # {}
    /\ CandidatesIn(args.matlib[1]) = {}
    /\ res2.val = "Free Space"
    /\ Cardinality(DOMAIN win.matlib[1].items) = Cardinality(DOMAIN args.matlib[1].items) + 1

\* C25: after a load_geometry step that succeeds, if the part list holds a
\* part "Bounds" and a material library is loaded, assignments["Bounds"] is one
\* of the free-space names and a key of the library; if the part list holds no
\* "Bounds", the assignments mapping is empty.
C25_LoadAssignsBounds ==
    [][(LoadGeometryStep /\ ~LoadFails(last'.path))
         => /\ win'.current_mesh_path = last'.path
            /\ (HasBounds(win'.parts) /\ win'.matlib # <<>>)
                  => /\ "Bounds" \in DOMAIN win'.assignments
                     /\ \E i \in DOMAIN name_candidates :
                           win'.assignments["Bounds"] = name_candidates[i]
                     /\ win'.assignments["Bounds"] \in DOMAIN win'.matlib[1].items
            /\ ~HasBounds(win'.parts) => win'.assignments = EmptyMap]_vars
\* a load that added Bounds and made the material it assigned to it
C25_Witness ==
    /\ last.op = "load_geometry"
    /\ ~LoadFails(last.path)
    /\ win.current_mesh_path = last.path
    /\ HasBounds(win.parts)
    /\ win.matlib # <<>>
    /\ win.assignments = ("Bounds" :> "Free Space")
\* a load that added no Bounds, after a material had been assigned
C25_WitnessNoBounds ==
    /\ last.op = "load_geometry"
    /\ ~LoadFails(last.path)
    /\ ~HasBounds(win.parts)
    /\ win.parts # <<>>
    /\ steps >= 3

\* C26: in every state the main window reaches, every key of the assignments
\* mapping is the name of a part in the part list.
C26_AssignedPartsExist == DOMAIN win.assignments \subseteq PartNames(win)

EnclosureNowStep == last'.op = "enclosure_now" /\ steps' = steps + 1
IsBoundsPart(p) == p[1] = "Bounds"
NotBoundsPart(p) == p[1] # "Bounds"
\* the mapping a without its entry for "Bounds"
OtherAssignments(a) == [n \in DOMAIN a \ {"Bounds"} |-> a[n]]
\* the Bounds entries of a part list rebuilt from mesh m alone: one shell, or
\* none when r, what make_bounding_box returned for m, is an exception
RebuiltBounds(r) ==
    IF r.exc # NoExc THEN <<>> ELSE <<(<<"Bounds", r.H.meshes[r.val]>>)>>

\* C27: an on_enclosure_now step with a mesh loaded leaves the mesh, the parts
\* not named Bounds in their order, and the assignments of parts not named
\* Bounds as they were, and the Bounds entries after it are what
\* make_bounding_box builds from the stored mesh, the mode and the pad alone;
\* with no mesh loaded the step changes nothing in the window.
C27_EnclosureNowOnlyBounds ==
    [][EnclosureNowStep =>
         IF win.mesh = <<>> THEN win' = win
         ELSE /\ win'.mesh = win.mesh
              /\ SelectSeq(win'.parts, NotBoundsPart) = SelectSeq(win.parts, NotBoundsPart)
              /\ OtherAssignments(win'.assignments) = OtherAssignments(win.assignments)
              /\ SelectSeq(win'.parts, IsBoundsPart)
                    = RebuiltBounds(make_bounding_box(ToHeaps(win.mesh[1], <<>>), 1,
                                                      enclosure_settings(win).mode,
                                                      enclosure_settings(win).pad))]_vars
\* enclosure_now has run on a mesh of several parts, one of them assigned
C27_Witness ==
    /\ last.op = "enclosure_now"
    /\ win.mesh # <<>>
    /\ HasBounds(win.parts)
    /\ Len(win.parts) >= 3
    /\ OtherAssignments(win.assignments) # EmptyMap
    /\ win.combo_enclosure_mode # "AABB (fast)"

\* this step is open_project failing on the file at last'.path
OpenProjectFailsStep == last'.op = "open_project_failed" /\ steps' = steps + 1

\* C28: when open_project fails, because the file cannot be read or parsed or
\* because its contents cannot be applied, current_project_file is after the
\* step what it was before, so that a later Save Project does not write to
\* the file that failed to open.
C28_FailedOpenKeepsProjectFile ==
    [][OpenProjectFailsStep => win'.current_project_file = win.current_project_file]_vars

\* the file read by this open_project step names no mesh that can be loaded
NoMeshToLoad(data) == data.mesh_path = PyNone \/ ~path_exists(data.mesh_path)
\* the names open_project may overwrite: parts of W the file assigns
Restorable(W, data) == PartNames(W) \cap DOMAIN data.assignments

\* C29: an open_project step on a file whose mesh_path is null or names a
\* file that does not exist leaves the mesh, the part list and
\* current_mesh_path as they were, keeps every key of the assignments, and
\* changes the assignment of a name only to what the file assigns to it and
\* only if the name is in the part list and in the file's assignments.
C29_OpenWithoutMeshKeepsSession ==
    [][(OpenProjectStep /\ NoMeshToLoad(project_files[last'.path]))
         => /\ win'.mesh = win.mesh
            /\ win'.parts = win.parts
            /\ win'.current_mesh_path = win.current_mesh_path
            /\ DOMAIN win.assignments \subseteq DOMAIN win'.assignments
            /\ \A n \in DOMAIN win'.assignments :
                  IF n \in Restorable(win, project_files[last'.path])
                  THEN win'.assignments[n] = project_files[last'.path].assignments[n]
                  ELSE n \in DOMAIN win.assignments
                       /\ win'.assignments[n] = win.assignments[n]
            /\ Restorable(win, project_files[last'.path]) \subseteq DOMAIN win'.assignments]_vars
\* a project naming a missing mesh was opened over a session with parts: one
\* assignment came from the file, another is not in the file and was kept
C29_Witness ==
    /\ last.op = "open_project"
    /\ project_files[last.path].mesh_path # PyNone
    /\ ~path_exists(project_files[last.path].mesh_path)
    /\ win.mesh # <<>>
    /\ Restorable(win, project_files[last.path]) # {}
    /\ DOMAIN win.assignments \ DOMAIN project_files[last.path].assignments # {}
\* a project with a null mesh_path was opened over a session with a mesh
C29_WitnessNullPath ==
    /\ last.op = "open_project"
    /\ project_files[last.path].mesh_path = PyNone
    /\ win.mesh # <<>>
    /\ win.current_mesh_path # PyNone

====
